---- MODULE Spec2Model ----
(***************************************************************************)
(* Board / Piece / Player state model and the movement archetypes of       *)
(* open_modular_chess.                                                      *)
(*                                                                         *)
(* Modelling conventions                                                   *)
(*  - A coordinate is a pair <<x, y>> with value equality; the off-board   *)
(*    sentinel (Python None) is NoCoords.                                  *)
(*  - Board._layout is a numpy array of shape `dimensions`, indexed by     *)
(*    coord_to_index(coord) (the reversed coordinate).  numpy indexing     *)
(*    wraps an index in [-n, -1] to index + n and raises IndexError        *)
(*    outside [-n, n).                                                     *)
(*  - An operation is a function from a store (record of every mutable     *)
(*    field) to a store; `exc` is set when the Python code raises, and the *)
(*    mutations made before the raise are kept, as in Python.              *)
(*  - The board fingerprint is a sum of tuple hashes, one per cell.  The   *)
(*    sum is represented by the set of its summands (index, piece hash),   *)
(*    the empty set standing for the integer 0; tuple hashing is taken to  *)
(*    be collision free on the coordinates of the model.                   *)
(***************************************************************************)
EXTENDS Integers, Sequences, FiniteSets, TLC

VARIABLES
    dimensions,     \* Board._dimensions
    layout,         \* Board._layout : index -> piece id or NoPiece
    hash_dirty,     \* Board._board_state_hash_dirty
    state_hash,     \* Board._board_state_hash
    players,        \* keys of Board._players
    owned,          \* Player._pieces, per player number
    kind,           \* class of each piece ("None": not constructed)
    pchar,          \* Piece._piece_char
    coords,         \* Piece._current_coords
    start,          \* Piece._starting_coords
    ctrl,           \* Piece._player_controller
    pdir,           \* Pawn._direction
    in_check,       \* ChessPlayer._in_check of each player
    threatened_spaces, \* ChessPlayer._threatened_spaces of each player
    last,           \* the last operation performed and what it returned
    prevcall,       \* the most recent list_moves() call, and whether the
                    \* board was mutated since
    ops             \* number of operations performed so far

vars == <<dimensions, layout, hash_dirty, state_hash, players, owned, kind,
          pchar, coords, start, ctrl, pdir, in_check, threatened_spaces,
          last, prevcall, ops>>

\* ------------------------------------------------------------------ bounds
MaxOps == 2
MaxCacheOps == 3
MaxBoardOps == 3
MaxMoveOps == 3
MaxPlayerOps == 3
MaxPieceOps == 2
MaxRegistryOps == 4
MaxCellLen == 5
MaxConstructOps == 1
MaxHashOps == 4

\* ------------------------------------------------------------- vocabulary
NoPiece == 0
NoCoords == <<>>
Pieces == {1, 2, 3, 4}
PlayerNums == {1, 2, 3}
SlidingKinds == {"Queen", "King", "Bishop"}
ChessKinds == {"Queen", "King", "Bishop", "Rook", "Knight", "Pawn"}

Add(c, d) == <<c[1] + d[1], c[2] + d[2]>>

RECURSIVE Flatten(_)
Flatten(ss) == IF ss = <<>> THEN <<>> ELSE Head(ss) \o Flatten(Tail(ss))

InSeq(x, s) == \E i \in 1..Len(s) : s[i] = x

\* ------------------------------------------------------------------ store
Cur ==
    [dims |-> dimensions, lay |-> layout, dirty |-> hash_dirty,
     hash |-> state_hash, reg |-> players, own |-> owned, kd |-> kind,
     ch |-> pchar, co |-> coords, st |-> start, ct |-> ctrl, dr |-> pdir,
     chk |-> in_check, thr |-> threatened_spaces,
     exc |-> FALSE, ret |-> FALSE, lim |-> FALSE]

Raise(S) == [S EXCEPT !.exc = TRUE]
Return(S, v) == [S EXCEPT !.ret = v]

\* ------------------------------------------------------------------ Board
\* on_board answered by what the layout array accepts as an index
on_board_by_index(S, space) ==
    \A i \in 1..2 : -S.dims[i] <= space[i] /\ space[i] < S.dims[i]

on_board(S, space) ==
    \A i \in 1..2 : 0 <= space[i] /\ space[i] < S.dims[i]

coord_to_index(coord) == <<coord[2], coord[1]>>

index_to_coord(index) == <<index[2], index[1]>>

\* numpy: layout[index] raises IndexError
IndexError(S, index) ==
    \E k \in 1..2 : index[k] < -S.dims[k] \/ index[k] >= S.dims[k]

\* numpy: the cell a valid index denotes (negative indices count from the end)
Cell(S, index) ==
    <<IF index[1] < 0 THEN index[1] + S.dims[1] ELSE index[1],
      IF index[2] < 0 THEN index[2] + S.dims[2] ELSE index[2]>>

query_space(S, space) ==
    IF IndexError(S, coord_to_index(space))
    THEN NoPiece
    ELSE S.lay[Cell(S, coord_to_index(space))]

\* Piece.__eq__: value equality.  The icon value is the class default (or,
\* for a promoted piece, the pawn's), so it is determined by the glyph.
PieceEq(S, a, b) ==
    /\ S.co[a] = S.co[b]
    /\ S.ct[a] = S.ct[b]
    /\ S.ch[a] = S.ch[b]

HashOfCoords(c) ==
    IF c = NoCoords THEN 0 ELSE ((c[1] + 10) * 100 + (c[2] + 10)) * 10

piece_state_hash(S, p) == HashOfCoords(S.co[p]) + S.ct[p]

ComputeHash(S) ==
    {<<index, IF S.lay[index] = NoPiece THEN -1
              ELSE piece_state_hash(S, S.lay[index])>> : index \in DOMAIN S.lay}

\* the property getter; the value it returns is the `hash` of the result
board_state_hash(S) ==
    IF S.dirty
    THEN [S EXCEPT !.hash = ComputeHash(S), !.dirty = FALSE]
    ELSE S


\* add_piece indexing the layout with the coordinate as it stands
Board_add_piece_unreversed(S, p) ==
    IF S.co[p] = NoCoords THEN Raise(S)
    ELSE IF query_space(S, S.co[p]) # NoPiece THEN Return(S, FALSE)
    ELSE IF IndexError(S, S.co[p]) THEN Raise(S)
    ELSE Return([S EXCEPT !.lay[Cell(S, S.co[p])] = p, !.dirty = TRUE], TRUE)

\* add_piece without the occupancy check
Board_add_piece_replacing(S, p) ==
    IF S.co[p] = NoCoords THEN Raise(S)
    ELSE IF IndexError(S, coord_to_index(S.co[p])) THEN Raise(S)
    ELSE Return([S EXCEPT !.lay[Cell(S, coord_to_index(S.co[p]))] = p,
                          !.dirty = TRUE], TRUE)

Board_add_piece(S, p) ==
    IF S.co[p] = NoCoords THEN Raise(S)
    ELSE IF query_space(S, S.co[p]) # NoPiece THEN Return(S, FALSE)
    ELSE IF IndexError(S, coord_to_index(S.co[p])) THEN Raise(S)
    ELSE Return([S EXCEPT !.lay[Cell(S, coord_to_index(S.co[p]))] = p,
                          !.dirty = TRUE], TRUE)

remove_from_play(S, p) == [S EXCEPT !.co[p] = NoCoords]

\* remove_piece without the call of remove_from_play
Board_remove_piece_keeps_coords(S, p) ==
    IF S.co[p] = NoCoords THEN Raise(S)
    ELSE LET q == query_space(S, S.co[p]) IN
         IF q = NoPiece \/ ~PieceEq(S, q, p) THEN Return(S, FALSE)
         ELSE Return([S EXCEPT !.lay[Cell(S, coord_to_index(S.co[p]))] = NoPiece,
                               !.dirty = TRUE], TRUE)

Board_remove_piece(S, p) ==
    IF S.co[p] = NoCoords THEN Raise(S)
    ELSE LET q == query_space(S, S.co[p]) IN
         IF q = NoPiece \/ ~PieceEq(S, q, p) THEN Return(S, FALSE)
         ELSE Return([remove_from_play(
                        [S EXCEPT !.lay[Cell(S, coord_to_index(S.co[p]))] = NoPiece],
                        p)
                      EXCEPT !.dirty = TRUE], TRUE)

Board_add_player(S, n) ==
    IF n \in S.reg THEN Return(S, FALSE)
    ELSE Return([S EXCEPT !.reg = S.reg \cup {n}, !.dirty = TRUE], TRUE)

\* remove_player deleting every registry entry
Board_remove_player_all(S, n) ==
    IF n \notin S.reg THEN Return(S, FALSE)
    ELSE Return([S EXCEPT !.reg = {}, !.dirty = TRUE], TRUE)

Board_remove_player(S, n) ==
    IF n \notin S.reg THEN Return(S, FALSE)
    ELSE Return([S EXCEPT !.reg = S.reg \ {n}, !.dirty = TRUE], TRUE)

\* self._players[player_number]: KeyError for an unknown number
get_player(S, n) == IF n \notin S.reg THEN Raise(S) ELSE Return(S, TRUE)

\* ----------------------------------------------------------------- Player
\* `piece in self._pieces`: list membership by Piece.__eq__
Owns(S, n, p) == \E i \in 1..Len(S.own[n]) : PieceEq(S, S.own[n][i], p)

\* list.remove: drops the first element equal to p
RemoveFirst(S, s, p) ==
    LET i == CHOOSE j \in 1..Len(s) :
                 /\ PieceEq(S, s[j], p)
                 /\ \A k \in 1..(j - 1) : ~PieceEq(S, s[k], p)
    IN SubSeq(s, 1, i - 1) \o SubSeq(s, i + 1, Len(s))

Player_add_piece(S, n, p) ==
    IF S.ct[p] # n THEN Return(S, FALSE)
    ELSE IF Owns(S, n, p) THEN Return(S, FALSE)
    ELSE Return([S EXCEPT !.own[n] = Append(S.own[n], p)], TRUE)

Player_remove_piece(S, n, p) ==
    IF ~Owns(S, n, p) THEN Return(S, FALSE)
    ELSE Return([S EXCEPT !.own[n] = RemoveFirst(S, S.own[n], p)], TRUE)

\* ------------------------------------------------------------------ Piece
set_player_control(S, p, new_player) ==
    IF new_player < 0 THEN Return(S, FALSE)
    ELSE IF new_player \notin S.reg THEN Return(S, FALSE)
    ELSE IF S.ct[p] \notin S.reg THEN Raise(S)      \* KeyError
    ELSE LET S1 == Player_remove_piece(S, S.ct[p], p)
             S2 == [S1 EXCEPT !.ct[p] = new_player]
             S3 == Player_add_piece(S2, new_player, p)
         IN Return(S3, TRUE)

\* Piece.capture: the coordinate is cleared before the board is asked to
\* remove the piece, so Board.remove_piece is called with the sentinel.
capture(S, p, new_player) ==
    LET S1 == set_player_control(S, p, new_player) IN
    IF S1.exc THEN S1
    ELSE IF S1.ret
    THEN LET S2 == Board_remove_piece([S1 EXCEPT !.co[p] = NoCoords], p)
         IN IF S2.exc THEN S2 ELSE Return(S2, TRUE)
    ELSE Return(S1, FALSE)

\* --------------------------------------------------------- SimplePiece
SimplePiece_list_moves == << <<0, 1>> >>

\* ---------------------------------------------------------- ChessPiece
DIRECTIONS(k) ==
    IF k = "Bishop"
    THEN << <<1, 1>>, <<-1, 1>>, <<-1, -1>>, <<1, -1>> >>
    ELSE << <<1, 0>>, <<1, 1>>, <<0, 1>>, <<-1, 1>>,
            <<-1, 0>>, <<-1, -1>>, <<0, -1>>, <<1, -1>> >>

MULTI_STEP(k) == k \in {"Queen", "Bishop"}

\* the while loop of ChessPiece.list_moves for one direction
RECURSIVE WalkDirection(_, _, _, _, _)
WalkDirection(S, p, try_move, direction, multi) ==
    IF ~on_board(S, try_move) THEN <<>>
    ELSE LET try_query == query_space(S, try_move) IN
         IF try_query = NoPiece
         THEN <<try_move>> \o
              (IF ~multi THEN <<>>
               ELSE WalkDirection(S, p, Add(try_move, direction), direction, multi))
         ELSE IF S.ct[try_query] # S.ct[p]
         THEN <<try_move>>
         ELSE IF ~multi THEN <<>>
         ELSE WalkDirection(S, p, Add(try_move, direction), direction, multi)

\* the number of times the body of that while loop runs for one direction
\* (Rook.list_moves has the same loop without the MULTI_STEP test)
RECURSIVE WalkSteps(_, _, _, _, _)
WalkSteps(S, p, try_move, direction, multi) ==
    IF ~on_board(S, try_move) THEN 0
    ELSE LET try_query == query_space(S, try_move) IN
         IF try_query # NoPiece /\ S.ct[try_query] # S.ct[p] THEN 1
         ELSE IF ~multi THEN 1
         ELSE 1 + WalkSteps(S, p, Add(try_move, direction), direction, multi)

ChessPiece_list_moves(S, p) ==
    Flatten([i \in 1..Len(DIRECTIONS(S.kd[p])) |->
                WalkDirection(S, p, Add(S.co[p], DIRECTIONS(S.kd[p])[i]),
                              DIRECTIONS(S.kd[p])[i], MULTI_STEP(S.kd[p]))])

\* ----------------------------------------------------------------- Rook
Rook_directions == << <<1, 0>>, <<-1, 0>>, <<0, -1>>, <<0, 1>> >>

RECURSIVE RookWalk(_, _, _, _)
RookWalk(S, p, try_move, direction) ==
    IF ~on_board(S, try_move) THEN <<>>
    ELSE LET try_query == query_space(S, try_move) IN
         IF try_query = NoPiece
         THEN <<try_move>> \o RookWalk(S, p, Add(try_move, direction), direction)
         ELSE IF S.ct[try_query] # S.ct[p]
         THEN <<try_move>>
         ELSE RookWalk(S, p, Add(try_move, direction), direction)

Rook_list_moves(S, p) ==
    Flatten([i \in 1..Len(Rook_directions) |->
                RookWalk(S, p, Add(S.co[p], Rook_directions[i]), Rook_directions[i])])

\* --------------------------------------------------------------- Knight
Knight_directions ==
    << <<2, 1>>, <<1, 2>>, <<-1, 2>>, <<-2, 1>>,
       <<-2, -1>>, <<-1, -2>>, <<1, -2>>, <<2, -1>> >>

\* Knight.list_moves without the test of the occupant's controller
Knight_try_any(S, p, try_move) == <<try_move>>

Knight_try(S, p, try_move) ==
    LET try_query == query_space(S, try_move) IN
    IF try_query = NoPiece THEN <<try_move>>
    ELSE IF S.ct[try_query] # S.ct[p] THEN <<try_move>>
    ELSE <<>>

Knight_list_moves(S, p) ==
    Flatten([i \in 1..Len(Knight_directions) |->
                Knight_try(S, p, Add(S.co[p], Knight_directions[i]))])

\* ----------------------------------------------------------------- Pawn
Pawn_moving_down(S, p) == S.ct[p] % 2 = 1

\* Pawn.__init__: the direction is fixed from the controller at construction
Pawn_direction(controller) == IF controller % 2 = 1 THEN <<0, 1>> ELSE <<0, -1>>

Pawn_capture_try(S, p, m) ==
    LET q == query_space(S, m) IN
    IF q # NoPiece /\ S.ct[q] # S.ct[p] THEN <<m>> ELSE <<>>

Pawn_list_moves(S, p) ==
    LET move_f == Add(S.co[p], S.dr[p])
        move_ff == Add(S.co[p], <<2 * S.dr[p][1], 2 * S.dr[p][2]>>)
        move_fl == Add(Add(S.co[p], S.dr[p]), <<1, 0>>)
        move_fr == Add(Add(S.co[p], S.dr[p]), <<-1, 0>>)
    IN (IF query_space(S, move_f) = NoPiece THEN <<move_f>> ELSE <<>>)
       \o (IF S.co[p] = S.st[p] /\ query_space(S, move_ff) = NoPiece
           THEN <<move_ff>> ELSE <<>>)
       \o Pawn_capture_try(S, p, move_fl)
       \o Pawn_capture_try(S, p, move_fr)

Pawn_get_promotion_zone(S, p) ==
    IF Pawn_moving_down(S, p) THEN 0 ELSE S.dims[2] - 1

\* ------------------------------------------------------ list_moves dispatch
\* `self._current_coords + direction` raises TypeError once the coordinate
\* is the sentinel; SimplePiece.list_moves reads no coordinate.
list_moves_raises(S, p) == S.kd[p] \in ChessKinds /\ S.co[p] = NoCoords

\* list_moves answering from the list remembered at the piece's previous
\* call, whatever happened to the board since
list_moves_remembered(S, p) ==
    IF prevcall.piece = p /\ prevcall.result = "list" THEN prevcall.moves
    ELSE CASE S.kd[p] = "Simple" -> SimplePiece_list_moves
           [] S.kd[p] \in SlidingKinds -> ChessPiece_list_moves(S, p)
           [] S.kd[p] = "Rook" -> Rook_list_moves(S, p)
           [] S.kd[p] = "Knight" -> Knight_list_moves(S, p)
           [] S.kd[p] = "Pawn" -> Pawn_list_moves(S, p)

list_moves(S, p) ==
    CASE S.kd[p] = "Simple" -> SimplePiece_list_moves
      [] S.kd[p] \in SlidingKinds -> ChessPiece_list_moves(S, p)
      [] S.kd[p] = "Rook" -> Rook_list_moves(S, p)
      [] S.kd[p] = "Knight" -> Knight_list_moves(S, p)
      [] S.kd[p] = "Pawn" -> Pawn_list_moves(S, p)

\* ------------------------------------------------------------------ move
\* Piece.move (inherited by SimplePiece)
Piece_move(S, p, coord) ==
    IF list_moves_raises(S, p) THEN Raise(S)
    ELSE IF ~InSeq(coord, list_moves(S, p)) THEN Return(S, FALSE)
    ELSE LET S1 == Board_remove_piece(S, p) IN
         IF S1.exc THEN S1
         ELSE LET S2 == [S1 EXCEPT !.co[p] = coord]
                  capture_piece == query_space(S2, coord)
                  S3 == IF capture_piece # NoPiece
                        THEN Board_remove_piece(S2, capture_piece)
                        ELSE S2
              IN IF S3.exc THEN S3
                 ELSE LET S4 == Board_add_piece(S3, p) IN
                      IF S4.exc THEN S4 ELSE Return(S4, TRUE)

\* the part ChessPiece.move, Rook.move, Knight.move and Pawn.move share:
\* the capture of an opposing occupant of the target
CaptureAt(S, p, coord) ==
    LET other_piece == query_space(S, coord) IN
    IF other_piece # NoPiece /\ S.ct[other_piece] # S.ct[p]
    THEN capture(S, other_piece, S.ct[p])
    ELSE S

\* ChessPiece.move without the validity check of lines 60-63
ChessPiece_move_unchecked(S, p, coord) ==
    IF list_moves_raises(S, p) THEN Raise(S)
    ELSE LET S1 == CaptureAt(S, p, coord) IN
         IF S1.exc THEN S1
         ELSE Return([S1 EXCEPT !.co[p] = coord], TRUE)

ChessPiece_move(S, p, coord) ==
    IF list_moves_raises(S, p) THEN Raise(S)
    ELSE IF ~InSeq(coord, list_moves(S, p)) THEN Return(S, FALSE)
    ELSE LET S1 == CaptureAt(S, p, coord) IN
         IF S1.exc THEN S1
         ELSE Return([S1 EXCEPT !.co[p] = coord], TRUE)

Rook_move(S, p, coord) ==
    IF list_moves_raises(S, p) THEN Raise(S)
    ELSE IF ~InSeq(coord, list_moves(S, p)) THEN Return(S, FALSE)
    ELSE LET S1 == CaptureAt(S, p, coord) IN
         IF S1.exc THEN S1
         ELSE Return([S1 EXCEPT !.co[p] = coord], TRUE)

Knight_move(S, p, coord) ==
    IF list_moves_raises(S, p) THEN Raise(S)
    ELSE IF ~InSeq(coord, list_moves(S, p)) THEN Return(S, FALSE)
    ELSE LET S1 == CaptureAt(S, p, coord) IN
         IF S1.exc THEN S1
         ELSE Return([S1 EXCEPT !.co[p] = coord], TRUE)

Unconstructed(S) == {q \in Pieces : S.kd[q] = "None"}

\* Queen(board, piece_char, piece_pxl_hex, current_coords, player_controller)
\* as Pawn.move calls it, followed by Board.add_piece of the new piece
Pawn_promote(S, p) ==
    IF S.co[p][1] < 0 \/ S.co[p][2] < 0 THEN Raise(S)
    ELSE IF S.ct[p] \notin S.reg THEN Raise(S)
    ELSE IF Unconstructed(S) = {} THEN [S EXCEPT !.lim = TRUE]
    ELSE LET q == CHOOSE x \in Unconstructed(S) :
                      \A y \in Unconstructed(S) : x <= y
             S1 == [S EXCEPT !.kd[q] = "Queen", !.ch[q] = S.ch[p],
                             !.co[q] = S.co[p], !.st[q] = S.co[p],
                             !.ct[q] = S.ct[p]]
         IN Board_add_piece(S1, q)

Pawn_move(S, p, coord) ==
    IF list_moves_raises(S, p) THEN Raise(S)
    ELSE IF ~InSeq(coord, list_moves(S, p)) THEN Return(S, FALSE)
    ELSE LET S1 == CaptureAt(S, p, coord) IN
         IF S1.exc THEN S1
         ELSE LET S2 == IF coord[2] = Pawn_get_promotion_zone(S1, p)
                        THEN Pawn_promote(S1, p)
                        ELSE S1
              IN IF S2.exc THEN S2
                 ELSE Return([S2 EXCEPT !.co[p] = coord], TRUE)

move(S, p, coord) ==
    CASE S.kd[p] = "Simple" -> Piece_move(S, p, coord)
      [] S.kd[p] \in SlidingKinds -> ChessPiece_move(S, p, coord)
      [] S.kd[p] = "Rook" -> Rook_move(S, p, coord)
      [] S.kd[p] = "Knight" -> Knight_move(S, p, coord)
      [] S.kd[p] = "Pawn" -> Pawn_move(S, p, coord)

\* ---------------------------------------------------------- perform_action
\* int(text): the texts a caller passes, and the integer each one denotes
\* (ValueError for the others)
IntTexts == {"-1", "0", "1", "2", "3"}

IntOf(text) ==
    CASE text = "-1" -> -1 [] text = "0" -> 0 [] text = "1" -> 1
      [] text = "2" -> 2 [] text = "3" -> 3

list_actions == {"move", "control"}

perform_action(S, p, action, args) ==
    IF action \notin list_actions THEN Return(S, FALSE)
    ELSE IF action = "move"
    THEN \* int(args[i]) for i in range(2): the first failing element decides
         IF Len(args) = 0 THEN Return(S, FALSE)                   \* IndexError
         ELSE IF args[1] \notin IntTexts THEN Return(S, FALSE)    \* ValueError
         ELSE IF Len(args) = 1 THEN Return(S, FALSE)              \* IndexError
         ELSE IF args[2] \notin IntTexts THEN Return(S, FALSE)    \* ValueError
         ELSE move(S, p, <<IntOf(args[1]), IntOf(args[2])>>)
    ELSE \* "control": only ValueError is caught
         IF Len(args) = 0 THEN Raise(S)                           \* IndexError
         ELSE IF args[1] \notin IntTexts THEN Return(S, FALSE)
         ELSE set_player_control(S, p, IntOf(args[1]))

\* ------------------------------------------------------------ initial boards
\* Boards as the loader (or the same calls made by hand) builds them:
\* Board.empty, one add_player per player number of the layout, every piece
\* constructed at its layout coordinate, added to its owner's list and to the
\* board in index order.
DEFAULT_PIECE_CHAR(k) ==
    CASE k = "Simple" -> "t" [] k = "Queen" -> "Q" [] k = "King" -> "K"
      [] k = "Bishop" -> "B" [] k = "Rook" -> "R" [] k = "Knight" -> "N"
      [] k = "Pawn" -> "P" [] k = "None" -> ""

Absent == [kd |-> "None", at |-> NoCoords, ct |-> 0]

Layouts ==
    { \* two pawns and a blocker
      [dims |-> <<3, 3>>,
       pcs |-> << [kd |-> "Pawn", at |-> <<0, 0>>, ct |-> 1],
                  [kd |-> "Simple", at |-> <<0, 1>>, ct |-> 1],
                  [kd |-> "Pawn", at |-> <<2, 1>>, ct |-> 2], Absent >>],
      \* a knight next to its own pawn, facing a king
      [dims |-> <<3, 3>>,
       pcs |-> << [kd |-> "Knight", at |-> <<1, 0>>, ct |-> 1],
                  [kd |-> "Pawn", at |-> <<1, 1>>, ct |-> 1],
                  [kd |-> "King", at |-> <<2, 2>>, ct |-> 2], Absent >>],
      \* a queen behind its own piece, a rook beyond
      [dims |-> <<3, 3>>,
       pcs |-> << [kd |-> "Queen", at |-> <<0, 0>>, ct |-> 1],
                  [kd |-> "Simple", at |-> <<1, 0>>, ct |-> 1],
                  [kd |-> "Rook", at |-> <<2, 0>>, ct |-> 2], Absent >>],
      \* a piece with the inherited move next to an opposing bishop
      [dims |-> <<3, 3>>,
       pcs |-> << [kd |-> "Simple", at |-> <<0, 0>>, ct |-> 1],
                  [kd |-> "Bishop", at |-> <<0, 1>>, ct |-> 2],
                  [kd |-> "King", at |-> <<1, 1>>, ct |-> 1], Absent >>] }

Indices(dims) == {<<i, j>> : i \in 0..(dims[1] - 1), j \in 0..(dims[2] - 1)}

OccupantOf(L, index) ==
    IF \E p \in Pieces : L.pcs[p].kd # "None" /\ coord_to_index(L.pcs[p].at) = index
    THEN CHOOSE p \in Pieces :
             L.pcs[p].kd # "None" /\ coord_to_index(L.pcs[p].at) = index
    ELSE NoPiece

OwnedIn(L, n) ==
    SelectSeq(<<1, 2, 3, 4>>, LAMBDA p : L.pcs[p].kd # "None" /\ L.pcs[p].ct = n)

\* what is remembered of the last list_moves call, and the cells the board
\* had when its fingerprint was last computed
NoCall ==
    [piece |-> NoPiece, moves |-> <<>>, result |-> "", changed |-> FALSE,
     hashed |-> FALSE, cells |-> <<>>]

NoOp ==
    [op |-> "", piece |-> NoPiece, target |-> NoCoords, num |-> 0,
     result |-> "", moves |-> <<>>, before |-> NoCall,
     action |-> "", args |-> <<>>, input |-> <<>>]

InitFrom(L) ==
    /\ dimensions = L.dims
    /\ layout = [index \in Indices(L.dims) |-> OccupantOf(L, index)]
    /\ hash_dirty = TRUE
    /\ state_hash = {}
    /\ players = {n \in PlayerNums : \E p \in Pieces : L.pcs[p].ct = n}
    /\ owned = [n \in PlayerNums |-> OwnedIn(L, n)]
    /\ kind = [p \in Pieces |-> L.pcs[p].kd]
    /\ pchar = [p \in Pieces |-> DEFAULT_PIECE_CHAR(L.pcs[p].kd)]
    /\ coords = [p \in Pieces |-> L.pcs[p].at]
    /\ start = [p \in Pieces |-> L.pcs[p].at]
    /\ ctrl = [p \in Pieces |-> L.pcs[p].ct]
    /\ pdir = [p \in Pieces |-> Pawn_direction(L.pcs[p].ct)]
    /\ in_check = [n \in PlayerNums |-> FALSE]
    /\ threatened_spaces = [n \in PlayerNums |-> <<>>]
    /\ last = NoOp
    /\ prevcall = NoCall
    /\ ops = 0

Init == \E L \in Layouts : InitFrom(L)

\* --------------------------------------------------------------- actions
Result(S) == IF S.exc THEN "raise" ELSE IF S.ret THEN "True" ELSE "False"

Mutated(S) ==
    \/ S.lay # layout
    \/ S.co # coords
    \/ S.ct # ctrl
    \/ S.kd # kind

CommitStore(S) ==
    /\ ~S.lim
    /\ dimensions' = S.dims
    /\ layout' = S.lay
    /\ hash_dirty' = S.dirty
    /\ state_hash' = S.hash
    /\ players' = S.reg
    /\ owned' = S.own
    /\ kind' = S.kd
    /\ pchar' = S.ch
    /\ coords' = S.co
    /\ start' = S.st
    /\ ctrl' = S.ct
    /\ pdir' = S.dr
    /\ in_check' = S.chk
    /\ threatened_spaces' = S.thr
    /\ ops' = ops + 1

Commit(S) ==
    /\ CommitStore(S)
    /\ prevcall' = [prevcall EXCEPT !.changed = prevcall.changed \/ Mutated(S)]

Constructed == {p \in Pieces : kind[p] # "None"}

\* the coordinates a caller tries: every listed move near the board, and two
\* fixed probes
InReach(t) ==
    /\ t[1] \in -2..(dimensions[1] + 1)
    /\ t[2] \in -2..(dimensions[2] + 1)

ProbeTargets == {<<1, 1>>, <<-1, 0>>}

Targets(p) ==
    ProbeTargets \cup
    (IF list_moves_raises(Cur, p) THEN {}
     ELSE {t \in {list_moves(Cur, p)[i] : i \in 1..Len(list_moves(Cur, p))} : InReach(t)})

Move(p, t) ==
    /\ Commit(move(Cur, p, t))
    /\ last' = [NoOp EXCEPT !.op = "move", !.piece = p, !.target = t,
                            !.result = Result(move(Cur, p, t))]

ListMoves(p) ==
    /\ UNCHANGED <<dimensions, layout, hash_dirty, state_hash, players, owned,
                   kind, pchar, coords, start, ctrl, pdir, in_check,
                 threatened_spaces>>
    /\ ops' = ops + 1
    /\ LET raised == list_moves_raises(Cur, p)
           call == [piece |-> p,
                    moves |-> IF raised THEN <<>> ELSE list_moves(Cur, p),
                    result |-> IF raised THEN "raise" ELSE "list",
                    changed |-> FALSE,
                    hashed |-> prevcall.hashed, cells |-> prevcall.cells]
       IN /\ prevcall' = call
          /\ last' = [NoOp EXCEPT !.op = "list_moves", !.piece = p,
                                  !.result = call.result, !.moves = call.moves,
                                  !.before = prevcall]

SetPlayerControl(p, n) ==
    /\ Commit(set_player_control(Cur, p, n))
    /\ last' = [NoOp EXCEPT !.op = "set_player_control", !.piece = p, !.num = n,
                            !.result = Result(set_player_control(Cur, p, n))]

BoardStateHash ==
    /\ CommitStore(board_state_hash(Cur))
    /\ prevcall' = [prevcall EXCEPT !.hashed = TRUE, !.cells = layout]
    /\ last' = [NoOp EXCEPT !.op = "board_state_hash", !.result = "hash"]

AddPiece(p) ==
    /\ Commit(Board_add_piece(Cur, p))
    /\ last' = [NoOp EXCEPT !.op = "add_piece", !.piece = p,
                            !.result = Result(Board_add_piece(Cur, p))]

RemovePiece(p) ==
    /\ Commit(Board_remove_piece(Cur, p))
    /\ last' = [NoOp EXCEPT !.op = "remove_piece", !.piece = p,
                            !.result = Result(Board_remove_piece(Cur, p))]

AddPlayer(n) ==
    /\ Commit(Board_add_player(Cur, n))
    /\ last' = [NoOp EXCEPT !.op = "add_player", !.num = n,
                            !.result = Result(Board_add_player(Cur, n))]

RemovePlayer(n) ==
    /\ Commit(Board_remove_player(Cur, n))
    /\ last' = [NoOp EXCEPT !.op = "remove_player", !.num = n,
                            !.result = Result(Board_remove_player(Cur, n))]

ControlInputs == {-1, 1, 2, 3}

Next ==
    \/ ops < MaxOps /\ \E p \in Constructed : \E t \in Targets(p) : Move(p, t)
    \/ ops < MaxOps /\ \E p \in Constructed : ListMoves(p)
    \/ ops < MaxOps /\ \E p \in Constructed : \E n \in ControlInputs :
                            SetPlayerControl(p, n)
    \/ ops < MaxOps /\ BoardStateHash
    \/ ops < MaxOps /\ \E p \in Constructed : AddPiece(p)
    \/ ops < MaxOps /\ \E p \in Constructed : RemovePiece(p)
    \/ ops < MaxOps /\ \E n \in PlayerNums : AddPlayer(n)
    \/ ops < MaxOps /\ \E n \in PlayerNums : RemovePlayer(n)

Spec == Init /\ [][Next]_vars

\* The move-list calls of one board, interleaved with the operations that
\* mutate it.
CacheLayout ==
    [dims |-> <<3, 3>>,
     pcs |-> << [kd |-> "Queen", at |-> <<0, 0>>, ct |-> 1],
                [kd |-> "Rook", at |-> <<2, 0>>, ct |-> 2], Absent, Absent >>]

InitCache == InitFrom(CacheLayout)

NextCache ==
    \/ ops < MaxCacheOps /\ \E p \in Constructed : \E t \in Targets(p) : Move(p, t)
    \/ ops < MaxCacheOps /\ \E p \in Constructed : ListMoves(p)
    \/ ops < MaxCacheOps /\ \E p \in Constructed : \E n \in ControlInputs :
                                 SetPlayerControl(p, n)
    \/ ops < MaxCacheOps /\ \E p \in Constructed : AddPiece(p)
    \/ ops < MaxCacheOps /\ \E p \in Constructed : RemovePiece(p)

SpecCache == InitCache /\ [][NextCache]_vars

\* A board of any shape built by hand: Board.empty, add_player for players
\* 1 and 2, three pieces constructed (Piece.__init__ accepts any non-negative
\* coordinate and any registered controller) and not yet added.  Pieces 1
\* and 2 have the same attributes, piece 3 another glyph and controller.
BoardShapes == {<<2, 3>>, <<3, 2>>, <<2, 2>>}

PieceCoords == {<<0, 0>>, <<1, 0>>, <<0, 2>>}

Probes == {<<-1, 0>>, <<0, -1>>, <<1, 1>>, <<0, 2>>, <<2, 0>>, <<3, 3>>}

InitBoard ==
    \E shape \in BoardShapes : \E a \in PieceCoords : \E b \in PieceCoords :
        /\ dimensions = shape
        /\ layout = [index \in Indices(shape) |-> NoPiece]
        /\ hash_dirty = TRUE
        /\ state_hash = {}
        /\ players = {1, 2}
        /\ owned = [n \in PlayerNums |-> <<>>]
        /\ kind = <<"Simple", "Simple", "Bishop", "None">>
        /\ pchar = <<"t", "t", "B", "">>
        /\ coords = <<a, b, a, NoCoords>>
        /\ start = <<a, b, a, NoCoords>>
        /\ ctrl = <<1, 1, 2, 0>>
        /\ pdir = [p \in Pieces |-> <<0, -1>>]
        /\ in_check = [n \in PlayerNums |-> FALSE]
        /\ threatened_spaces = [n \in PlayerNums |-> <<>>]
        /\ last = NoOp
        /\ prevcall = NoCall
        /\ ops = 0

QuerySpace(c) ==
    /\ UNCHANGED <<dimensions, layout, hash_dirty, state_hash, players, owned,
                   kind, pchar, coords, start, ctrl, pdir, in_check,
                 threatened_spaces, prevcall>>
    /\ ops' = ops + 1
    /\ last' = [NoOp EXCEPT !.op = "query_space", !.target = c,
                            !.piece = query_space(Cur, c)]

OnBoard(c) ==
    /\ UNCHANGED <<dimensions, layout, hash_dirty, state_hash, players, owned,
                   kind, pchar, coords, start, ctrl, pdir, in_check,
                 threatened_spaces, prevcall>>
    /\ ops' = ops + 1
    /\ last' = [NoOp EXCEPT !.op = "on_board", !.target = c,
                            !.result = IF on_board(Cur, c) THEN "True" ELSE "False"]

NextBoard ==
    \/ ops < MaxBoardOps /\ \E p \in Constructed : AddPiece(p)
    \/ ops < MaxBoardOps /\ \E p \in Constructed : RemovePiece(p)
    \/ ops < MaxBoardOps /\ \E c \in Probes : QuerySpace(c)
    \/ ops < MaxBoardOps /\ \E c \in Probes : OnBoard(c)

SpecBoard == InitBoard /\ [][NextBoard]_vars

\* Moves only, on the loaded boards.
NextMoves ==
    ops < MaxMoveOps /\ \E p \in Constructed : \E t \in Targets(p) : Move(p, t)

SpecMoves == Init /\ [][NextMoves]_vars

\* The players' piece lists: a loaded board with two pieces of one archetype
\* and one controller, the calls that edit the lists, and remove_piece.
PlayerLayout ==
    [dims |-> <<2, 2>>,
     pcs |-> << [kd |-> "Simple", at |-> <<0, 0>>, ct |-> 1],
                [kd |-> "Simple", at |-> <<1, 0>>, ct |-> 1],
                [kd |-> "Bishop", at |-> <<1, 1>>, ct |-> 2], Absent >>]

InitPlayer == InitFrom(PlayerLayout)

PlayerAddPiece(n, p) ==
    /\ Commit(Player_add_piece(Cur, n, p))
    /\ last' = [NoOp EXCEPT !.op = "player_add_piece", !.piece = p, !.num = n,
                            !.result = Result(Player_add_piece(Cur, n, p))]

PlayerRemovePiece(n, p) ==
    /\ Commit(Player_remove_piece(Cur, n, p))
    /\ last' = [NoOp EXCEPT !.op = "player_remove_piece", !.piece = p, !.num = n,
                            !.result = Result(Player_remove_piece(Cur, n, p))]

NextPlayer ==
    \/ ops < MaxPlayerOps /\ \E p \in Constructed : \E n \in PlayerNums :
                                  PlayerAddPiece(n, p)
    \/ ops < MaxPlayerOps /\ \E p \in Constructed : \E n \in PlayerNums :
                                  PlayerRemovePiece(n, p)
    \/ ops < MaxPlayerOps /\ \E p \in Constructed : \E n \in ControlInputs :
                                  SetPlayerControl(p, n)
    \/ ops < MaxPlayerOps /\ \E p \in Constructed : RemovePiece(p)

SpecPlayer == InitPlayer /\ [][NextPlayer]_vars

\* The calls a game loop makes on a piece of a loaded board.
ActionNames == {"move", "control", "test"}

ArgLists == {<<>>, <<"1">>, <<"t">>, <<"0", "1">>, <<"1", "t">>, <<"2", "0">>, <<"-1">>}

PerformAction(p, action, args) ==
    /\ Commit(perform_action(Cur, p, action, args))
    /\ last' = [NoOp EXCEPT !.op = "perform_action", !.piece = p,
                            !.action = action, !.args = args,
                            !.result = Result(perform_action(Cur, p, action, args))]

Capture(p, n) ==
    /\ Commit(capture(Cur, p, n))
    /\ last' = [NoOp EXCEPT !.op = "capture", !.piece = p, !.num = n,
                            !.result = Result(capture(Cur, p, n))]

NextPiece ==
    \/ ops < MaxPieceOps /\ \E p \in Constructed : \E action \in ActionNames :
                                 \E args \in ArgLists : PerformAction(p, action, args)
    \/ ops < MaxPieceOps /\ \E p \in Constructed : \E n \in ControlInputs :
                                 Capture(p, n)

SpecPiece == Init /\ [][NextPiece]_vars

\* The player registry of a loaded board.
GetPlayer(n) ==
    /\ Commit(get_player(Cur, n))
    /\ last' = [NoOp EXCEPT !.op = "get_player", !.num = n,
                            !.result = IF get_player(Cur, n).exc
                                       THEN "raise" ELSE "player"]

NextRegistry ==
    \/ ops < MaxRegistryOps /\ \E n \in PlayerNums : AddPlayer(n)
    \/ ops < MaxRegistryOps /\ \E n \in PlayerNums : RemovePlayer(n)
    \/ ops < MaxRegistryOps /\ \E n \in PlayerNums : GetPlayer(n)

SpecRegistry == InitPlayer /\ [][NextRegistry]_vars

\* ------------------------------------------------------------- Piece.__init__
\* Icon values are 64-bit and beyond: an integer is a sign and its magnitude
\* in base 2^16, most significant digit first, without leading zeros.
\* h < 1 or h > (2 ** 64) - 1
HexOutOfBounds(h) == h.neg \/ h.mag = <<>> \/ Len(h.mag) > 4

\* cls: the class of the object (its name, DEFAULT_PIECE_CHAR and
\* DEFAULT_PIECE_PIXEL_HEX); NoCoords and NoHex stand for an argument left
\* at None.  The piece becomes object p of the store.
NoHex == [neg |-> FALSE, mag |-> <<-1>>]

\* the constructor checking the controller before the coordinate
Piece_init_controller_first(S, p, cls, piece_pxl_hex, current_coords, player_controller) ==
    LET hex == IF piece_pxl_hex = NoHex THEN cls.hex ELSE piece_pxl_hex
        at == IF current_coords = NoCoords THEN <<0, 0>> ELSE current_coords
    IN IF cls.kd = "Piece" THEN [err |-> "NotImplementedError", S |-> S]
       ELSE IF cls.char = ""
       THEN [err |-> "PieceSubclassInvalidException", S |-> S]
       ELSE IF HexOutOfBounds(cls.hex)
       THEN [err |-> "PieceSubclassInvalidException", S |-> S]
       ELSE IF HexOutOfBounds(hex)
       THEN [err |-> "PiecePixelHexOutOfBoundsException", S |-> S]
       ELSE IF player_controller < 0
       THEN [err |-> "NegativePiecePlayerNumException", S |-> S]
       ELSE IF player_controller \notin S.reg
       THEN [err |-> "NonCurrentPiecePlayerNumException", S |-> S]
       ELSE IF at[1] < 0 \/ at[2] < 0
       THEN [err |-> "NegativePieceCoordinatesException", S |-> S]
       ELSE [err |-> "",
             S |-> [S EXCEPT !.kd[p] = cls.kd, !.ch[p] = cls.char,
                             !.co[p] = at, !.st[p] = at,
                             !.ct[p] = player_controller,
                             !.dr[p] = Pawn_direction(player_controller)]]

Piece_init(S, p, cls, piece_pxl_hex, current_coords, player_controller) ==
    LET hex == IF piece_pxl_hex = NoHex THEN cls.hex ELSE piece_pxl_hex
        at == IF current_coords = NoCoords THEN <<0, 0>> ELSE current_coords
    IN IF cls.kd = "Piece" THEN [err |-> "NotImplementedError", S |-> S]
       ELSE IF cls.char = ""
       THEN [err |-> "PieceSubclassInvalidException", S |-> S]
       ELSE IF HexOutOfBounds(cls.hex)
       THEN [err |-> "PieceSubclassInvalidException", S |-> S]
       ELSE IF HexOutOfBounds(hex)
       THEN [err |-> "PiecePixelHexOutOfBoundsException", S |-> S]
       ELSE IF at[1] < 0 \/ at[2] < 0
       THEN [err |-> "NegativePieceCoordinatesException", S |-> S]
       ELSE IF player_controller < 0
       THEN [err |-> "NegativePiecePlayerNumException", S |-> S]
       ELSE IF player_controller \notin S.reg
       THEN [err |-> "NonCurrentPiecePlayerNumException", S |-> S]
       ELSE [err |-> "",
             S |-> [S EXCEPT !.kd[p] = cls.kd, !.ch[p] = cls.char,
                             !.co[p] = at, !.st[p] = at,
                             !.ct[p] = player_controller,
                             !.dr[p] = Pawn_direction(player_controller)]]

\* ------------------------------------------------------------------ load_set
\* Texts are sequences of characters.
DigitOf(d) == CASE d = "0" -> 0 [] d = "1" -> 1 [] d = "2" -> 2 [] d = "3" -> 3

\* str.partition('_'): the text before the first '_' and the text after it
RECURSIVE partition_head(_)
partition_head(t) ==
    IF t = <<>> \/ Head(t) = "_" THEN <<>>
    ELSE <<Head(t)>> \o partition_head(Tail(t))

RECURSIVE partition_tail(_)
partition_tail(t) ==
    IF t = <<>> THEN <<>>
    ELSE IF Head(t) = "_" THEN Tail(t)
    ELSE partition_tail(Tail(t))

RECURSIVE lstrip_p(_)
lstrip_p(t) == IF t # <<>> /\ Head(t) = "p" THEN lstrip_p(Tail(t)) ELSE t

\* int(text) of a player prefix: ValueError unless it is a run of digits
IsInt(t) == t # <<>> /\ \A i \in 1..Len(t) : t[i] \in {"0", "1", "2", "3"}

RECURSIVE int(_)
int(t) == IF t = <<>> THEN 0
          ELSE 10 * int(SubSeq(t, 1, Len(t) - 1)) + DigitOf(t[Len(t)])

get_player_number_from_raw_piece_name(raw_piece_name) ==
    lstrip_p(partition_head(raw_piece_name))

\* the class a piece module defines
rook == <<"r", "o", "o", "k">>
pawn == <<"p", "a", "w", "n">>
queen == <<"q", "u", "e", "e", "n">>
mage == <<"m", "a", "g", "e">>

PieceClass(piece_name) ==
    LET k == CASE piece_name = rook -> "Rook" [] piece_name = pawn -> "Pawn"
               [] piece_name = queen -> "Queen" [] piece_name = mage -> "Simple"
    IN [kd |-> k, char |-> DEFAULT_PIECE_CHAR(k),
        hex |-> [neg |-> FALSE, mag |-> <<1>>]]

\* np.ndenumerate(piece_name_layout): the cells in row-major order
CellsOf(piece_name_layout) ==
    Flatten([i \in 1..Len(piece_name_layout) |->
               [j \in 1..Len(piece_name_layout[i]) |->
                  [index |-> <<i - 1, j - 1>>, name |-> piece_name_layout[i][j]]]])

\* the loop that instantiates the pieces: piece_map_func, then
\* layout[index] = piece on the (columns, rows) array
RECURSIVE Instantiate(_, _, _)
Instantiate(S, piece_map, cells) ==
    IF cells = <<>> THEN [err |-> "", S |-> S]
    ELSE LET index == Head(cells).index
             raw_piece_name == Head(cells).name
             piece_name == partition_tail(raw_piece_name)
             q == CHOOSE x \in Unconstructed(S) : \A y \in Unconstructed(S) : x <= y
             made == IF raw_piece_name # <<>> /\ piece_name \in piece_map
                     THEN Piece_init(S, q, PieceClass(piece_name), NoHex,
                                     index_to_coord(index),
                                     int(get_player_number_from_raw_piece_name(
                                             raw_piece_name)))
                     ELSE [err |-> "", S |-> S]
         IN IF raw_piece_name # <<>> /\ piece_name \in piece_map
               /\ Unconstructed(S) = {}
            THEN [err |-> "", S |-> [S EXCEPT !.lim = TRUE]]
            ELSE IF made.err # "" THEN made
            ELSE IF IndexError(S, index) THEN [err |-> "IndexError", S |-> S]
            ELSE Instantiate(made.S, piece_map, Tail(cells))

\* the loop that registers the pieces with their players and the board
RECURSIVE Register(_, _)
Register(S, pieces) ==
    IF pieces = <<>> THEN [err |-> "", S |-> S]
    ELSE LET piece == Head(pieces)
             S1 == Player_add_piece(S, S.ct[piece], piece)
             S2 == Board_add_piece(S1, piece)
         IN IF S2.exc THEN [err |-> "IndexError", S |-> S]
            ELSE Register(S2, Tail(pieces))

\* record: what the set directory holds.  rows are the rows csv.reader
\* yields; the layout field is given by its length and by what
\* ast.literal_eval makes of it.
get_board(S, record, piece_map) ==
    LET row == record.rows[Len(record.rows)]
        raw_layout == row.raw_layout
        rows == IntOf(row.raw_rows)
        columns == IntOf(row.raw_columns)
        piece_name_layout == raw_layout.value
        names == {CellsOf(piece_name_layout)[k].name :
                      k \in 1..Len(CellsOf(piece_name_layout))} \ {<<>>}
        player_numbers == {int(get_player_number_from_raw_piece_name(x)) : x \in names}
        board == [S EXCEPT !.dims = <<columns, rows>>,
                           !.lay = [index \in Indices(<<columns, rows>>) |-> NoPiece],
                           !.reg = player_numbers, !.dirty = TRUE]
        made == Instantiate(board, piece_map, CellsOf(piece_name_layout))
    IN IF ~record.board_file THEN [err |-> "BoardNotFoundException", S |-> S]
       ELSE IF \E k \in 1..Len(record.rows) : record.rows[k].n # 3
       THEN [err |-> "InvalidBoardFormatException", S |-> S]
       ELSE IF record.rows = <<>> \/ raw_layout.parse = "empty"
       THEN [err |-> "EmptyBoardException", S |-> S]
       ELSE IF row.raw_rows \notin IntTexts \/ row.raw_columns \notin IntTexts
       THEN [err |-> "InvalidBoardDimensionException", S |-> S]
       ELSE IF raw_layout.parse = "ValueError"
       THEN [err |-> "InvalidBoardLayoutException", S |-> S]
       ELSE IF raw_layout.parse = "SyntaxError"
       THEN [err |-> "SyntaxError", S |-> S]
       ELSE IF raw_layout.parse = "numbers"
       THEN [err |-> "AttributeError", S |-> S]
       ELSE IF \E x \in names : ~IsInt(get_player_number_from_raw_piece_name(x))
       THEN [err |-> "ValueError", S |-> S]
       ELSE IF rows < 0 \/ columns < 0
       THEN [err |-> "ValueError", S |-> S]                 \* np.empty
       ELSE IF ~record.player_file
       THEN [err |-> "PlayerNotFoundException", S |-> S]
       ELSE IF made.err # "" THEN [err |-> made.err, S |-> S]
       ELSE IF made.S.lim THEN made
       ELSE Register(made.S, SelectSeq(<<1, 2, 3, 4>>,
                                       LAMBDA p : made.S.kd[p] # "None"))

\* load_set reading the board record before it looks for the pieces
load_set_board_first(S, record) ==
    IF ~record.isdir THEN [err |-> "SetNotFoundException", S |-> S]
    ELSE LET loaded == get_board(S, record, record.modules) IN
         IF loaded.err # "" THEN loaded
         ELSE IF ~record.pieces_dir THEN [err |-> "PiecesNotFoundException", S |-> S]
         ELSE IF record.modules = {} THEN [err |-> "PiecesEmptyException", S |-> S]
         ELSE IF ~record.conditions_dir
         THEN [err |-> "ConditionNotFoundException", S |-> S]
         ELSE loaded

load_set(S, record) ==
    IF ~record.isdir THEN [err |-> "SetNotFoundException", S |-> S]
    ELSE IF ~record.pieces_dir THEN [err |-> "PiecesNotFoundException", S |-> S]
    ELSE IF record.modules = {} THEN [err |-> "PiecesEmptyException", S |-> S]
    ELSE LET loaded == get_board(S, record, record.modules) IN
         IF loaded.err # "" THEN loaded
         ELSE IF ~record.conditions_dir
         THEN [err |-> "ConditionNotFoundException", S |-> S]
         ELSE loaded

\* Constructing one more piece for a board that holds three.
Hex(mag) == [neg |-> FALSE, mag |-> mag]

HexValues ==                   \* None, -1, 0, 1, 2^64 - 1, 2^64
    {NoHex, [neg |-> TRUE, mag |-> <<1>>], Hex(<<>>), Hex(<<1>>),
     Hex(<<65535, 65535, 65535, 65535>>), Hex(<<1, 0, 0, 0, 0>>)}

\* Piece itself, SimplePiece, SimplePieceNoDefPieceChar,
\* SimplePieceNoDefPxlHex and a subclass whose default icon is 2^64
PieceClasses ==
    {[kd |-> "Piece", char |-> "", hex |-> Hex(<<>>)],
     [kd |-> "Simple", char |-> "t", hex |-> Hex(<<65304, 6168, 6168, 6168>>)],
     [kd |-> "Simple", char |-> "", hex |-> Hex(<<65304, 6168, 6168, 6168>>)],
     [kd |-> "Simple", char |-> "t", hex |-> Hex(<<>>)],
     [kd |-> "Simple", char |-> "t", hex |-> Hex(<<1, 0, 0, 0, 0>>)]}

CoordArgs == {NoCoords, <<0, 0>>, <<1, 1>>, <<-1, 0>>, <<0, -1>>}

Construct(cls, piece_pxl_hex, current_coords, player_controller) ==
    LET q == CHOOSE x \in Unconstructed(Cur) : \A y \in Unconstructed(Cur) : x <= y
        made == Piece_init(Cur, q, cls, piece_pxl_hex, current_coords,
                           player_controller)
    IN /\ Unconstructed(Cur) # {}
       /\ IF made.err = ""
          THEN Commit(made.S)
          ELSE /\ UNCHANGED <<dimensions, layout, hash_dirty, state_hash, players,
                              owned, kind, pchar, coords, start, ctrl, pdir, in_check,
                 threatened_spaces, prevcall>>
               /\ ops' = ops + 1
       /\ last' = [NoOp EXCEPT
                     !.op = "construct", !.piece = q, !.target = current_coords,
                     !.num = player_controller,
                     !.input = [cls |-> cls, hex |-> piece_pxl_hex],
                     !.result = IF made.err = "" THEN "ok" ELSE made.err]

NextConstruct ==
    ops < MaxConstructOps /\ \E cls \in PieceClasses : \E hex \in HexValues :
        \E at \in CoordArgs : \E n \in ControlInputs : Construct(cls, hex, at, n)

SpecConstruct == InitPlayer /\ [][NextConstruct]_vars

\* No board exists yet.
InitLoad == InitFrom([dims |-> <<0, 0>>, pcs |-> <<Absent, Absent, Absent, Absent>>])

\* ------------------------------------------------------------ validate_board
\* re.search('p[0-9]+_', t): the text of the leftmost match, <<>> if none
re_search_prefix(t) ==
    LET Ends(i) == {k \in (i + 2)..Len(t) :
                       /\ t[k] = "_"
                       /\ \A d \in (i + 1)..(k - 1) : t[d] \in {"0", "1", "2", "3"}}
        starts == {i \in 1..Len(t) : t[i] = "p" /\ Ends(i) # {}}
    IN IF starts = {} THEN <<>>
       ELSE LET i == CHOOSE x \in starts : \A y \in starts : x <= y
            IN SubSeq(t, i, CHOOSE k \in Ends(i) : TRUE)

\* re.search(name, t) for a name of letters: name occurs in t
re_search(name, t) ==
    \E i \in 1..(Len(t) - Len(name) + 1) : SubSeq(t, i, i + Len(name) - 1) = name

\* t.replace(old, ''): every occurrence of old, left to right, is dropped
RECURSIVE replace(_, _)
replace(t, old) ==
    IF Len(t) < Len(old) THEN t
    ELSE IF SubSeq(t, 1, Len(old)) = old
    THEN replace(SubSeq(t, Len(old) + 1, Len(t)), old)
    ELSE <<Head(t)>> \o replace(Tail(t), old)

\* the check of one non-blank cell
valid_piece(curr_cell, piece_names) ==
    LET player_prefix == re_search_prefix(curr_cell) IN
    /\ player_prefix # <<>>
    /\ \E name \in piece_names :
           /\ re_search(name, curr_cell)
           /\ Len(replace(curr_cell, player_prefix)) = Len(name)

\* validate_board of a board with the given dimensions and layout of texts,
\* in a set whose piece modules are piece_names: TRUE, or the failure
validate_board(num_rows, num_cols, board_layout, piece_names) ==
    IF num_rows < 1 \/ num_cols < 1 THEN FALSE
    ELSE IF Len(board_layout) # num_rows THEN FALSE
    ELSE \A i \in 1..Len(board_layout) :
             /\ Len(board_layout[i]) = num_cols
             /\ \A j \in 1..Len(board_layout[i]) :
                    \/ board_layout[i][j] = <<>>
                    \/ valid_piece(board_layout[i][j], piece_names)

\* The validation of a one-row board whose first cell is any text.
CellAlphabet == {"p", "1", "_", "r", "k"}

Cells == UNION {[1..n -> CellAlphabet] : n \in 0..MaxCellLen}

PieceNames == {<<"r">>, <<"r", "k">>}

ValidateBoard(num_cols, cell) ==
    /\ ops = 0
    /\ UNCHANGED <<dimensions, layout, hash_dirty, state_hash, players, owned,
                   kind, pchar, coords, start, ctrl, pdir, in_check,
                 threatened_spaces, prevcall>>
    /\ ops' = ops + 1
    /\ last' = [NoOp EXCEPT
                  !.op = "validate_board", !.input = cell, !.num = num_cols,
                  !.result = IF validate_board(1, num_cols,
                                               <<<<cell>> \o [k \in 1..(num_cols - 1) |-> <<>>]>>,
                                               PieceNames)
                             THEN "True" ELSE "BoardValidationFailedException"]

NextValidate == \E num_cols \in {1, 2} : \E cell \in Cells : ValidateBoard(num_cols, cell)

SpecValidate == InitLoad /\ [][NextValidate]_vars

\* Loading a set: the first thing the program does.
\* a layout cell naming player n and a piece
Named(n, piece_name) == <<"p", n, "_">> \o piece_name

CellTexts == {<<>>, Named("1", rook), Named("2", pawn), Named("1", mage), rook}

\* the layout literals: rectangular (rows, columns), at most two non-empty
\* cells
LayoutValues ==
    UNION {{[i \in 1..shape[1] |-> [j \in 1..shape[2] |->
                IF <<i, j>> = at1 THEN a ELSE IF <<i, j>> = at2 THEN b ELSE <<>>]] :
              <<at1, at2, a, b>> \in ((1..shape[1]) \X (1..shape[2]))
                                     \X ((1..shape[1]) \X (1..shape[2]))
                                     \X CellTexts \X CellTexts} :
           shape \in {<<1, 2>>, <<2, 2>>, <<2, 3>>, <<3, 2>>}}

DimTexts == {"-1", "0", "2", "3", "x"}

Strings(value) == [parse |-> "strings", value |-> value]

\* the layout field: empty, not parsable, not a literal, a literal of
\* numbers, or a nested literal of strings
LayoutFields ==
    {[parse |-> k, value |-> <<>>] : k \in {"empty", "SyntaxError", "ValueError", "numbers"}}
    \cup {Strings(<<<<Named("1", rook), <<>>>>, <<<<>>, Named("2", pawn)>>>>)}

Row(r, c, field) == [n |-> 3, raw_rows |-> r, raw_columns |-> c, raw_layout |-> field]

SetRecords ==
    \* every layout under every declared dimension, in a complete set
    {[isdir |-> TRUE, pieces_dir |-> TRUE, modules |-> {rook, pawn, queen},
      board_file |-> TRUE, player_file |-> TRUE, conditions_dir |-> TRUE,
      rows |-> <<Row(r, c, Strings(value))>>] :
         <<r, c, value>> \in DimTexts \X DimTexts \X LayoutValues}
    \* every defect of the directory and of the board record
    \cup {[isdir |-> d[1], pieces_dir |-> d[2], modules |-> m,
           board_file |-> d[3], player_file |-> d[4], conditions_dir |-> d[5],
           rows |-> rows] :
         <<d, m, rows>> \in (BOOLEAN \X BOOLEAN \X BOOLEAN \X BOOLEAN \X BOOLEAN)
                            \X {{}, {rook, pawn, queen}}
                            \X ({<<>>, <<[n |-> 2]>>, <<[n |-> 4]>>,
                                 <<Row("2", "2", Strings(<<>>)), [n |-> 0]>>}
                                \cup {<<Row(r, "2", field)>> :
                                        <<r, field>> \in {"2", "x"} \X LayoutFields}
                                \cup {<<Row("2", "x", field)>> : field \in LayoutFields})}

LoadSet(record) ==
    LET loaded == load_set(Cur, record) IN
    /\ ops = 0
    /\ IF loaded.err = ""
       THEN Commit(loaded.S)
       ELSE /\ UNCHANGED <<dimensions, layout, hash_dirty, state_hash, players,
                           owned, kind, pchar, coords, start, ctrl, pdir, in_check,
                 threatened_spaces, prevcall>>
            /\ ops' = ops + 1
    /\ last' = [NoOp EXCEPT !.op = "load_set", !.input = record,
                            !.result = IF loaded.err = "" THEN "ok" ELSE loaded.err]

NextLoad == \E record \in SetRecords : LoadSet(record)

SpecLoad == InitLoad /\ [][NextLoad]_vars

\* The fingerprint of a board on which a rook stands, with a knight of the
\* same player constructed for the same coordinate and not yet added.
InitHash ==
    /\ dimensions = <<2, 2>>
    /\ layout = [index \in Indices(<<2, 2>>) |->
                   IF index = <<0, 0>> THEN 1 ELSE IF index = <<1, 1>> THEN 3 ELSE NoPiece]
    /\ hash_dirty = TRUE
    /\ state_hash = {}
    /\ players = {1, 2}
    /\ owned = <<<<1, 2>>, <<3>>, <<>>>>
    /\ kind = <<"Rook", "Knight", "Queen", "None">>
    /\ pchar = <<"R", "N", "Q", "">>
    /\ coords = <<<<0, 0>>, <<0, 0>>, <<1, 1>>, NoCoords>>
    /\ start = <<<<0, 0>>, <<0, 0>>, <<1, 1>>, NoCoords>>
    /\ ctrl = <<1, 1, 2, 0>>
    /\ pdir = [p \in Pieces |-> Pawn_direction(ctrl[p])]
    /\ in_check = [n \in PlayerNums |-> FALSE]
    /\ threatened_spaces = [n \in PlayerNums |-> <<>>]
    /\ last = NoOp
    /\ prevcall = NoCall
    /\ ops = 0

NextHash ==
    \/ ops < MaxHashOps /\ BoardStateHash
    \/ ops < MaxHashOps /\ \E p \in Constructed : AddPiece(p)
    \/ ops < MaxHashOps /\ \E p \in Constructed : RemovePiece(p)

SpecHash == InitHash /\ [][NextHash]_vars

\* ------------------------------------------------------------ ChessPlayer
\* The chess players of the base set on loaded 3x3 boards: the calls that
\* recompute threatened spaces and test the end of the game, and the moves.
MaxChessOps == 3

\* the coordinates update_threatened_spaces appends for one piece
PieceThreats(S, piece) ==
    IF S.ch[piece] = "P" /\ Len(list_moves(S, piece)) > 0
    THEN LET base_move == list_moves(S, piece)[1]
             left_capture == <<base_move[1] - 1, base_move[2]>>
             right_capture == <<base_move[1] + 1, base_move[2]>>
         IN (IF on_board(S, left_capture) THEN <<left_capture>> ELSE <<>>)
            \o (IF on_board(S, right_capture) THEN <<right_capture>> ELSE <<>>)
    ELSE list_moves(S, piece)

\* the test made on every appended coordinate
ThreatensKing(S, n, space) ==
    LET th_piece == query_space(S, space) IN
    th_piece # NoPiece /\ S.ch[th_piece] = "K" /\ S.ct[th_piece] # n

opposing_player_controller(n) == (n % 2) + 1

set_check(S, n, status) == [S EXCEPT !.chk[n] = status]

\* update_threatened_spaces that never sets a flag
update_threatened_spaces_silent(S, n) ==
    IF S.own[n] = <<>> THEN Raise(S)
    ELSE IF \E i \in 1..Len(S.own[n]) : list_moves_raises(S, S.own[n][i])
    THEN Raise(S)
    ELSE [S EXCEPT !.thr[n] =
              Flatten([i \in 1..Len(S.own[n]) |-> PieceThreats(S, S.own[n][i])])]

update_threatened_spaces(S, n) ==
    IF S.own[n] = <<>> THEN Raise(S)                     \* self._pieces[0]
    ELSE IF \E i \in 1..Len(S.own[n]) : list_moves_raises(S, S.own[n][i])
    THEN Raise(S)
    ELSE LET updated_threatened_spaces ==
                 Flatten([i \in 1..Len(S.own[n]) |-> PieceThreats(S, S.own[n][i])])
             causing_check ==
                 \E j \in 1..Len(updated_threatened_spaces) :
                     ThreatensKing(S, n, updated_threatened_spaces[j])
             S1 == IF causing_check
                   THEN get_player(S, opposing_player_controller(n))
                   ELSE S
         IN IF S1.exc THEN S1
            ELSE [(IF causing_check
                   THEN set_check(S, opposing_player_controller(n), TRUE)
                   ELSE S)
                  EXCEPT !.thr[n] = updated_threatened_spaces]

check_lose_condition(S, n) ==
    IF ~S.chk[n] THEN Return(S, FALSE)
    ELSE IF \E i \in 1..Len(S.own[n]) : list_moves_raises(S, S.own[n][i])
    THEN Raise(S)
    ELSE Return(S, \A i \in 1..Len(S.own[n]) : Len(list_moves(S, S.own[n][i])) = 0)

check_win_condition(S, n) ==
    IF S.own[n] = <<>> THEN Raise(S)                     \* self._pieces[0]
    ELSE IF opposing_player_controller(n) \notin S.reg THEN Raise(S)
    ELSE check_lose_condition(S, opposing_player_controller(n))

\* Lose.test_condition(board, player)
Lose_test_condition(S, n) ==
    ~\E i \in 1..Len(S.own[n]) : S.kd[S.own[n][i]] = "King"

ChessLayouts ==
    { \* a rook facing the opposing king, next to its own king
      [dims |-> <<3, 3>>,
       pcs |-> << [kd |-> "Rook", at |-> <<1, 0>>, ct |-> 1],
                  [kd |-> "King", at |-> <<0, 0>>, ct |-> 1],
                  [kd |-> "King", at |-> <<1, 2>>, ct |-> 2], Absent >>],
      \* a pawn blocked by its own knight, the opposing king on its diagonal
      [dims |-> <<3, 3>>,
       pcs |-> << [kd |-> "Pawn", at |-> <<0, 0>>, ct |-> 1],
                  [kd |-> "Knight", at |-> <<0, 1>>, ct |-> 1],
                  [kd |-> "Pawn", at |-> <<2, 2>>, ct |-> 2],
                  [kd |-> "King", at |-> <<1, 1>>, ct |-> 2] >>],
      \* a piece with the inherited move in front of the opposing king
      [dims |-> <<3, 3>>,
       pcs |-> << [kd |-> "Simple", at |-> <<0, 0>>, ct |-> 1],
                  [kd |-> "King", at |-> <<0, 1>>, ct |-> 2],
                  [kd |-> "Queen", at |-> <<2, 2>>, ct |-> 2], Absent >>] }

InitChess == \E L \in ChessLayouts : InitFrom(L)

UpdateThreatenedSpaces(n) ==
    /\ Commit(update_threatened_spaces(Cur, n))
    /\ last' = [NoOp EXCEPT !.op = "update_threatened_spaces", !.num = n,
                   !.result = IF update_threatened_spaces(Cur, n).exc
                              THEN "raise" ELSE "None"]

CheckLoseCondition(n) ==
    /\ Commit(check_lose_condition(Cur, n))
    /\ last' = [NoOp EXCEPT !.op = "check_lose_condition", !.num = n,
                            !.result = Result(check_lose_condition(Cur, n))]

CheckWinCondition(n) ==
    /\ Commit(check_win_condition(Cur, n))
    /\ last' = [NoOp EXCEPT !.op = "check_win_condition", !.num = n,
                            !.result = Result(check_win_condition(Cur, n))]

LoseTestCondition(n) ==
    /\ Commit(Cur)
    /\ last' = [NoOp EXCEPT !.op = "Lose.test_condition", !.num = n,
                   !.result = IF Lose_test_condition(Cur, n) THEN "True" ELSE "False"]

NextChess ==
    \/ ops < MaxChessOps /\ \E p \in Constructed : \E t \in Targets(p) : Move(p, t)
    \/ ops < MaxChessOps /\ \E n \in players : UpdateThreatenedSpaces(n)
    \/ ops < MaxChessOps /\ \E n \in players : CheckLoseCondition(n)
    \/ ops < MaxChessOps /\ \E n \in players : CheckWinCondition(n)
    \/ ops < MaxChessOps /\ \E n \in players : LoseTestCondition(n)

SpecChess == InitChess /\ [][NextChess]_vars

\* ================================================================ claims
Occupies(p, c) == c # NoCoords /\ on_board(Cur, c) /\ layout[coord_to_index(c)] = p

OnNoCell(L, p) == \A index \in DOMAIN L : L[index] # p

MoveStep == last'.op = "move" /\ ops' = ops + 1

\* C1: after a successful move(target) by a piece that occupies origin cell
\* o, query_space(target) is the mover, the mover's coordinate is target,
\* query_space(o) is empty and every other cell keeps its occupant.
C1_SuccessfulMoveRelocates ==
    [][ (MoveStep /\ last'.result = "True" /\ Occupies(last'.piece, coords[last'.piece]))
        => LET p == last'.piece
               t == last'.target
               o == coords[last'.piece]
           IN /\ query_space(Cur', t) = p
              /\ coords'[p] = t
              /\ (o # t => query_space(Cur', o) = NoPiece)
              /\ \A index \in DOMAIN layout :
                     (index # coord_to_index(o) /\ index_to_coord(index) # t)
                         => layout'[index] = layout[index] ]_vars

C3_CaptureOnMove ==
    [][ (/\ MoveStep
         /\ last'.result = "True"
         /\ query_space(Cur, last'.target) # NoPiece
         /\ ctrl[query_space(Cur, last'.target)] # ctrl[last'.piece])
        => LET p == last'.piece
               t == last'.target
               q == query_space(Cur, last'.target)
           IN /\ query_space(Cur', t) = p
              /\ coords'[q] = NoCoords
              /\ OnNoCell(layout', q) ]_vars

\* the cells a piece at `from` passes walking in `direction`, nearest first
StepsOnBoard == 1..(dimensions[1] + dimensions[2])

RayCell(from, direction, k) == <<from[1] + k * direction[1], from[2] + k * direction[2]>>

Occupied(c) == query_space(Cur, c) # NoPiece

Opposing(p, c) == Occupied(c) /\ ctrl[query_space(Cur, c)] # ctrl[p]

SlidingDirections(p) ==
    IF kind[p] = "Rook" THEN {Rook_directions[i] : i \in DOMAIN Rook_directions}
    ELSE {DIRECTIONS(kind[p])[i] : i \in DOMAIN DIRECTIONS(kind[p])}

IsSliding(p) ==
    /\ p \in Constructed
    /\ coords[p] # NoCoords
    /\ kind[p] = "Rook" \/ (kind[p] \in SlidingKinds /\ MULTI_STEP(kind[p]))

\* C4: along each direction a sliding piece lists no cell beyond the first
\* occupied cell, and lists that first occupied cell exactly when its
\* occupant has a different controller (a same-controller occupant ends the
\* walk and is not listed).
C4_SlidingStopsAtFirstOccupied ==
    \A p \in Pieces : IsSliding(p) =>
        \A d \in SlidingDirections(p) : \A k \in StepsOnBoard :
            LET c == RayCell(coords[p], d, k)
                blocked == \E j \in 1..(k - 1) :
                               /\ on_board(Cur, RayCell(coords[p], d, j))
                               /\ Occupied(RayCell(coords[p], d, j))
            IN on_board(Cur, c) =>
                 /\ blocked => ~InSeq(c, list_moves(Cur, p))
                 /\ (~blocked /\ Occupied(c))
                        => (InSeq(c, list_moves(Cur, p)) <=> Opposing(p, c))

KnightDeltas == {Knight_directions[i] : i \in DOMAIN Knight_directions}

ListedSet(p) == {list_moves(Cur, p)[i] : i \in DOMAIN list_moves(Cur, p)}

\* C5: a knight lists current coordinate + delta, for each of its eight
\* deltas, exactly when that cell is on the board and empty or held by a
\* different controller; it lists no off-board cell.
C5_KnightMoves ==
    \A p \in Pieces :
        (p \in Constructed /\ kind[p] = "Knight" /\ coords[p] # NoCoords)
        => ListedSet(p) = {c \in {Add(coords[p], d) : d \in KnightDeltas} :
                              on_board(Cur, c) /\ (~Occupied(c) \/ Opposing(p, c))}

IsPawn(p) == p \in Constructed /\ kind[p] = "Pawn" /\ coords[p] # NoCoords

\* C6: a pawn lists its forward-two cell exactly when it stands on its
\* starting coordinate and both the forward-one and the forward-two cell are
\* empty; a pawn that has moved (and so left its starting coordinate) never
\* lists it.
C6_PawnForwardTwo ==
    \A p \in Pieces : IsPawn(p) =>
        LET f == Add(coords[p], pdir[p])
            ff == Add(f, pdir[p])
        IN InSeq(ff, list_moves(Cur, p))
               <=> (coords[p] = start[p] /\ ~Occupied(f) /\ ~Occupied(ff))

PawnDiagonals(p) ==
    {Add(Add(coords[p], pdir[p]), <<1, 0>>), Add(Add(coords[p], pdir[p]), <<-1, 0>>)}

\* C7: a pawn lists a forward-diagonal cell exactly when that cell is on the
\* board and occupied by a piece of a different controller; an empty,
\* off-board (x = -1 included) or same-controller diagonal is never listed.
C7_PawnDiagonalCapture ==
    \A p \in Pieces : IsPawn(p) =>
        \A c \in PawnDiagonals(p) :
            InSeq(c, list_moves(Cur, p)) <=> (on_board(Cur, c) /\ Opposing(p, c))

\* the last rank in the pawn's own forward direction
LastForwardRank(p) == IF pdir[p][2] > 0 THEN dimensions[2] - 1 ELSE 0

\* C8: after a pawn's successful move that ends on the last rank in its own
\* forward direction, the destination cell holds a Queen with the pawn's
\* controller and the pawn occupies no cell.
C8_PawnPromotes ==
    [][ (/\ MoveStep
         /\ last'.result = "True"
         /\ kind[last'.piece] = "Pawn"
         /\ on_board(Cur, last'.target)
         /\ last'.target[2] = LastForwardRank(last'.piece))
        => LET q == query_space(Cur', last'.target)
           IN /\ q # NoPiece
              /\ kind'[q] = "Queen"
              /\ ctrl'[q] = ctrl[last'.piece]
              /\ OnNoCell(layout', last'.piece) ]_vars

\* the move list of the piece's archetype, computed on the current board
Recomputed(p) ==
    CASE kind[p] = "Simple" -> SimplePiece_list_moves
      [] kind[p] \in SlidingKinds -> ChessPiece_list_moves(Cur, p)
      [] kind[p] = "Rook" -> Rook_list_moves(Cur, p)
      [] kind[p] = "Knight" -> Knight_list_moves(Cur, p)
      [] kind[p] = "Pawn" -> Pawn_list_moves(Cur, p)

C10_CleanHashIsCurrent == ~hash_dirty => state_hash = ComputeHash(Cur)

AddStep == last'.op = "add_piece" /\ ops' = ops + 1

RemoveStep == last'.op = "remove_piece" /\ ops' = ops + 1

\* the piece is the very object in the cell of its recorded coordinate
InOwnCell(p) == coords[p] # NoCoords /\ query_space(Cur, coords[p]) = p

\* C11: on a board of any shape, after add_piece(p) succeeds for a piece
\* whose recorded coordinate c is on the board, query_space(c) returns p.
C11_AddedPieceIsQueried ==
    [][ (AddStep /\ last'.result = "True" /\ on_board(Cur, coords[last'.piece]))
        => query_space(Cur', coords[last'.piece]) = last'.piece ]_vars

\* a successful add_piece at an on-board coordinate of a non-square board
C11_Witness ==
    /\ last.op = "add_piece"
    /\ last.result = "True"
    /\ dimensions[1] # dimensions[2]
    /\ on_board(Cur, coords[last.piece])
    /\ query_space(Cur, coords[last.piece]) = last.piece

\* C12: add_piece(p) when the cell at p's recorded coordinate is occupied
\* returns False and leaves the layout (and every coordinate) unchanged.
C12_AddOnOccupiedRefused ==
    [][ (/\ AddStep
         /\ coords[last'.piece] # NoCoords
         /\ query_space(Cur, coords[last'.piece]) # NoPiece)
        => /\ last'.result = "False"
           /\ layout' = layout
           /\ coords' = coords ]_vars

\* add_piece refused because another piece holds the cell
C12_Witness ==
    /\ last.op = "add_piece"
    /\ last.result = "False"
    /\ query_space(Cur, coords[last.piece]) \notin {NoPiece, last.piece}

\* C13: after remove_piece(p) succeeds for a piece p occupying cell c,
\* query_space(c) is empty, p's coordinate is the sentinel and every other
\* cell is unchanged.
C13_RemovedPieceLeavesCell ==
    [][ (RemoveStep /\ last'.result = "True" /\ InOwnCell(last'.piece))
        => LET c == coords[last'.piece]
           IN /\ query_space(Cur', c) = NoPiece
              /\ coords'[last'.piece] = NoCoords
              /\ \A index \in DOMAIN layout :
                     index # Cell(Cur, coord_to_index(c))
                         => layout'[index] = layout[index] ]_vars

\* the bishop, which no other piece equals, was placed and then removed
C13_Witness ==
    /\ last.op = "remove_piece"
    /\ last.result = "True"
    /\ kind[last.piece] = "Bishop"
    /\ coords[last.piece] = NoCoords
    /\ OnNoCell(layout, last.piece)

\* C14: remove_piece(p) returns False without raising and changes neither
\* the layout nor any coordinate whenever the cell at p's recorded coordinate
\* is not occupied by p itself (another object with the same attributes
\* there, or p already removed, included).
C14_RemoveOfAbsentPieceRefused ==
    [][ (RemoveStep /\ ~InOwnCell(last'.piece))
        => /\ last'.result = "False"
           /\ layout' = layout
           /\ coords' = coords ]_vars

\* C15: for every coordinate that is not on the board, whatever the
\* occupancy, query_space returns empty.
C15_OffBoardQueryIsEmpty ==
    (last.op = "query_space" /\ ~on_board(Cur, last.target))
    => last.piece = NoPiece

Placed(p) == \E index \in DOMAIN layout : layout[index] = p

\* the object p is an element of player n's list
Member(n, p) == \E i \in 1..Len(owned[n]) : owned[n][i] = p

\* C17: every piece that occupies a board cell has a controller number that
\* is a key of the board's player registry, in every state reached by
\* add_player, remove_player, add_piece, remove_piece, move and
\* set_player_control.
C17_PlacedControllerRegistered ==
    \A p \in Pieces : Placed(p) => ctrl[p] \in players

\* C18: on a loaded board, after any sequence of moves, every piece that
\* occupies a cell is a member of exactly one registered player's piece list,
\* and every piece whose coordinate is the sentinel is a member of no list.
C18_MembershipFollowsMoves ==
    \A p \in Pieces :
        /\ Placed(p) => Cardinality({n \in players : Member(n, p)}) = 1
        /\ (p \in Constructed /\ coords[p] = NoCoords)
               => \A n \in PlayerNums : ~Member(n, p)

\* C19: a player's piece list contains no piece twice and every member's
\* controller equals that player's number.
C19_PlayerListsConsistent ==
    \A n \in PlayerNums :
        /\ \A i \in 1..Len(owned[n]) : \A j \in 1..Len(owned[n]) :
               owned[n][i] = owned[n][j] => i = j
        /\ \A i \in 1..Len(owned[n]) : ctrl[owned[n][i]] = n

ControlStep == last'.op = "set_player_control" /\ ops' = ops + 1

\* C20: set_player_control(n) with n negative or unregistered returns False
\* and leaves the controller and every player's list unchanged; otherwise it
\* returns True, the controller becomes n, the piece leaves the previous
\* controller's list and is in player n's list, and its coordinate and the
\* layout are unchanged.
C20_SetPlayerControl ==
    [][ ControlStep =>
        LET p == last'.piece
            n == last'.num
        IN IF n < 0 \/ n \notin players
           THEN /\ last'.result = "False"
                /\ ctrl' = ctrl
                /\ owned' = owned
           ELSE /\ last'.result = "True"
                /\ ctrl'[p] = n
                /\ ctrl[p] # n =>
                       \A i \in 1..Len(owned'[ctrl[p]]) : owned'[ctrl[p]][i] # p
                /\ \E i \in 1..Len(owned'[n]) : owned'[n][i] = p
                /\ coords' = coords
                /\ layout' = layout ]_vars

ActionStep == last'.op = "perform_action" /\ ops' = ops + 1

\* C21: for every action name and every argument list, perform_action
\* returns a boolean without raising, and whenever it returns False the
\* piece's coordinate and controller are unchanged.
C21_PerformActionReturnsBoolean ==
    [][ ActionStep =>
        /\ last'.result \in {"True", "False"}
        /\ last'.result = "False" =>
               /\ coords'[last'.piece] = coords[last'.piece]
               /\ ctrl'[last'.piece] = ctrl[last'.piece] ]_vars

CaptureStep == last'.op = "capture" /\ ops' = ops + 1

\* C22: capture(n) with n negative or unregistered returns False and changes
\* nothing; otherwise it returns True, the controller becomes n, the
\* coordinate becomes the sentinel and the cell the piece occupied no longer
\* holds it.
C22_Capture ==
    [][ CaptureStep =>
        LET p == last'.piece
            n == last'.num
        IN IF n < 0 \/ n \notin players
           THEN /\ last'.result = "False"
                /\ UNCHANGED <<layout, coords, ctrl, owned, players>>
           ELSE /\ last'.result = "True"
                /\ ctrl'[p] = n
                /\ coords'[p] = NoCoords
                /\ InOwnCell(p) => query_space(Cur', coords[p]) # p ]_vars

RemovePlayerStep == last'.op = "remove_player" /\ ops' = ops + 1

GetPlayerStep == last'.op = "get_player" /\ ops' = ops + 1

Loaded == last.op = "load_set" /\ last.result = "ok"

LoadedRow == last.input.rows[Len(last.input.rows)]

LoadedCells == LET cells == CellsOf(LoadedRow.raw_layout.value)
               IN {cells[k] : k \in 1..Len(cells)}

\* C24: after a successful load the registered player numbers are exactly
\* those named in non-empty layout cells; the cell at row r, column c naming
\* player N and archetype A is answered by query_space((c, r)) with a piece
\* of archetype A, controller N and coordinate (c, r) that is in player N's
\* pieces; every empty layout cell is an empty board cell.
C24_LoadedBoardMatchesLayout ==
    Loaded =>
        /\ players = {int(lstrip_p(partition_head(cell.name))) :
                          cell \in {x \in LoadedCells : x.name # <<>>}}
        /\ \A cell \in LoadedCells :
               LET q == query_space(Cur, index_to_coord(cell.index))
                   N == int(lstrip_p(partition_head(cell.name)))
               IN IF cell.name = <<>> THEN q = NoPiece
                  ELSE /\ q # NoPiece
                       /\ kind[q] = PieceClass(partition_tail(cell.name)).kd
                       /\ ctrl[q] = N
                       /\ coords[q] = index_to_coord(cell.index)
                       /\ InSeq(q, owned[N])

NoBoard == dimensions = <<0, 0>> /\ Constructed = {} /\ players = {}

\* a load whose set directory is complete
CompleteSet ==
    /\ last.op = "load_set"
    /\ last.input.isdir /\ last.input.pieces_dir /\ last.input.modules # {}
    /\ last.input.board_file /\ last.input.player_file /\ last.input.conditions_dir

\* a board record of three fields, integer dimensions and a layout that is
\* a nested literal of cell texts
ParsedRecord ==
    /\ CompleteSet
    /\ last.input.rows # <<>>
    /\ \A k \in 1..Len(last.input.rows) : last.input.rows[k].n = 3
    /\ LoadedRow.raw_rows \in IntTexts /\ LoadedRow.raw_columns \in IntTexts
    /\ LoadedRow.raw_layout.parse = "strings"

\* C25: a board record whose declared row or column count is non-positive,
\* or whose layout has a number of rows, or a row with a number of columns,
\* other than declared, makes the load fail with a board-validation failure
\* and no board is returned.
C25_DimensionsValidated ==
    (/\ ParsedRecord
     /\ LET rows == IntOf(LoadedRow.raw_rows)
            columns == IntOf(LoadedRow.raw_columns)
            value == LoadedRow.raw_layout.value
        IN \/ rows < 1 \/ columns < 1
           \/ Len(value) # rows
           \/ \E i \in 1..Len(value) : Len(value[i]) # columns)
    => (last.result = "BoardValidationFailedException" /\ NoBoard)

\* C27: get_board answers a row whose field count is not 3 with
\* InvalidBoardFormat, an empty layout field or an empty file with
\* EmptyBoard, a non-integer row or column field with InvalidBoardDimension
\* and a layout field that is not a nested literal of strings with
\* InvalidBoardLayout, and returns no board.
C27_RecordDefectsTyped ==
    (/\ last.op = "load_set"
     /\ last.input.isdir /\ last.input.pieces_dir /\ last.input.modules # {}
     /\ last.input.board_file)
    => LET rows == last.input.rows IN
       IF \E k \in 1..Len(rows) : rows[k].n # 3
       THEN last.result = "InvalidBoardFormatException" /\ NoBoard
       ELSE IF rows = <<>> \/ LoadedRow.raw_layout.parse = "empty"
       THEN last.result = "EmptyBoardException" /\ NoBoard
       ELSE IF LoadedRow.raw_rows \notin IntTexts \/ LoadedRow.raw_columns \notin IntTexts
       THEN last.result = "InvalidBoardDimensionException" /\ NoBoard
       ELSE LoadedRow.raw_layout.parse # "strings"
            => (last.result = "InvalidBoardLayoutException" /\ NoBoard)

\* C28: load_set fails with SetNotFound when the set directory is absent,
\* with PiecesNotFound when the pieces directory is absent and with
\* PiecesEmpty when it holds no piece module, in that order, whatever the
\* board record is, and returns no board.
C28_DirectoryChecksFirst ==
    last.op = "load_set" =>
        /\ ~last.input.isdir => (last.result = "SetNotFoundException" /\ NoBoard)
        /\ (last.input.isdir /\ ~last.input.pieces_dir)
               => (last.result = "PiecesNotFoundException" /\ NoBoard)
        /\ (last.input.isdir /\ last.input.pieces_dir /\ last.input.modules = {})
               => (last.result = "PiecesEmptyException" /\ NoBoard)

\* the pieces directory is empty and the board file is missing too
C28_Witness ==
    /\ last.op = "load_set"
    /\ last.result = "PiecesEmptyException"
    /\ ~last.input.board_file

\* the text p<N>_<name>: N a run of digits, <name> a piece module's name
ExactForm(cell) ==
    /\ Len(cell) >= 4
    /\ cell[1] = "p"
    /\ \E k \in 2..(Len(cell) - 2) :
           /\ \A d \in 2..k : cell[d] \in {"0", "1", "2", "3"}
           /\ cell[k + 1] = "_"
           /\ SubSeq(cell, k + 2, Len(cell)) \in PieceNames

\* C26: board validation accepts a non-empty layout cell exactly when it is
\* the text p<N>_<name>, N a non-negative decimal integer and <name> one of
\* the discovered piece names; every other non-empty cell is rejected with
\* BoardValidationFailed.
C26_CellAcceptedIffExact ==
    (last.op = "validate_board" /\ last.input # <<>>)
        => (last.result = "True" <=> ExactForm(last.input))

ConstructStep == last'.op = "construct" /\ ops' = ops + 1

\* an icon value within [1, 2^64 - 1]
IconInRange(h) == ~h.neg /\ Len(h.mag) \in 1..4

\* C29: constructing a piece fails, creating no piece and changing no board
\* or player state, with the error of the first violated check in this
\* order: the type is the abstract Piece; the class has no default glyph or
\* a default icon outside [1, 2^64-1]; the given icon is outside
\* [1, 2^64-1]; an axis of the given coordinate is negative; the controller
\* is negative; the controller is not registered.
C29_ConstructorChecksInOrder ==
    [][ ConstructStep =>
        LET cls == last'.input.cls
            hex == last'.input.hex
            at == last'.target
            n == last'.num
        IN /\ last'.result =
                  IF cls.kd = "Piece" THEN "NotImplementedError"
                  ELSE IF cls.char = "" \/ ~IconInRange(cls.hex)
                  THEN "PieceSubclassInvalidException"
                  ELSE IF hex # NoHex /\ ~IconInRange(hex)
                  THEN "PiecePixelHexOutOfBoundsException"
                  ELSE IF at # NoCoords /\ \E i \in 1..2 : at[i] < 0
                  THEN "NegativePieceCoordinatesException"
                  ELSE IF n < 0 THEN "NegativePiecePlayerNumException"
                  ELSE IF n \notin players THEN "NonCurrentPiecePlayerNumException"
                  ELSE "ok"
           /\ last'.result # "ok" =>
                  UNCHANGED <<dimensions, layout, players, owned, kind, pchar,
                              coords, start, ctrl>> ]_vars

\* a negative coordinate is reported although the controller is negative too
C29_Witness ==
    /\ last.op = "construct"
    /\ last.result = "NegativePieceCoordinatesException"
    /\ last.num < 0
    /\ kind[last.piece] = "None"

HashStep == last'.op = "board_state_hash" /\ ops' = ops + 1

\* C30: two states of the board that differ in which piece occupies some
\* cell have different fingerprints: a fingerprint computed after the
\* occupant of a cell changed differs from the one computed before.
C30_FingerprintTellsOccupants ==
    [][ (/\ HashStep
         /\ prevcall.hashed
         /\ \E index \in DOMAIN layout : layout[index] # prevcall.cells[index])
        => state_hash' # state_hash ]_vars

\* ------------------------------------------------------ chess players
Updated == last.op = "update_threatened_spaces" /\ last.result = "None"

SeqRange(s) == {s[i] : i \in 1..Len(s)}

InPlayOf(n) == {p \in SeqRange(owned[n]) : coords[p] # NoCoords}

ForwardDiagonals(p) ==
    {c \in {Add(Add(coords[p], pdir[p]), <<1, 0>>),
            Add(Add(coords[p], pdir[p]), <<-1, 0>>)} : on_board(Cur, c)}

AttackedBy(p) ==
    IF kind[p] = "Pawn" THEN ForwardDiagonals(p)
    ELSE SeqRange(list_moves(Cur, p))

\* C31: after a chess player's update_threatened_spaces the threatened
\* spaces are the union, over the player's pieces in play, of the on-board
\* forward diagonals of each pawn and of the listed moves of every other
\* piece.
C31_ThreatenedIsUnion ==
    Updated =>
        SeqRange(threatened_spaces[last.num])
            = UNION {AttackedBy(p) : p \in InPlayOf(last.num)}

HoldsOpposingKing(n, c) ==
    LET q == query_space(Cur, c) IN
    q # NoPiece /\ kind[q] = "King" /\ ctrl[q] = opposing_player_controller(n)

KingThreatenedBy(n) ==
    \E j \in 1..Len(threatened_spaces[n]) :
        HoldsOpposingKing(n, threatened_spaces[n][j])

\* C32: after a player's update_threatened_spaces, if one of the player's
\* threatened coordinates holds a King controlled by the opposing player,
\* the opposing player's in_check flag is true.
C32_ThreatenedKingIsInCheck ==
    (Updated /\ KingThreatenedBy(last.num))
        => in_check[opposing_player_controller(last.num)]

C32_Witness ==
    /\ Updated
    /\ KingThreatenedBy(last.num)
    /\ in_check[opposing_player_controller(last.num)]
    /\ ~in_check[last.num]

\* C33: check_lose_condition returns a boolean, never raises, in every
\* state reached by moves and captures, and the boolean is true exactly
\* when the player's in_check flag is set and none of the player's pieces
\* in play has a legal move.
C33_LoseIffCheckedAndStuck ==
    last.op = "check_lose_condition" =>
        /\ last.result \in {"True", "False"}
        /\ last.result = "True" <=>
               /\ in_check[last.num]
               /\ \A p \in InPlayOf(last.num) : list_moves(Cur, p) = <<>>

\* ------------------------------------------------------------ ray walks
Directional == {p \in Constructed : kind[p] \in SlidingKinds \cup {"Rook"} /\ coords[p] # NoCoords}

DirectionsOf(p) ==
    IF kind[p] = "Rook" THEN SeqRange(Rook_directions) ELSE SeqRange(DIRECTIONS(kind[p]))

StepsOf(p, d) ==
    WalkSteps(Cur, p, Add(coords[p], d), d, kind[p] = "Rook" \/ MULTI_STEP(kind[p]))

MaxDimension == IF dimensions[1] > dimensions[2] THEN dimensions[1] ELSE dimensions[2]

CellsAndCoordinatesAgree ==
    /\ \A index \in DOMAIN layout :
          layout[index] # NoPiece => coords[layout[index]] = index_to_coord(index)
    /\ \A p \in Constructed :
          Cardinality({index \in DOMAIN layout : layout[index] = p}) <= 1
    /\ \A p \in Constructed : coords[p] # NoCoords => Occupies(p, coords[p])

\* C35: in every state reached from a loaded board by successful or refused
\* moves, every piece that occupies a cell has that cell's coordinate, no
\* piece occupies more than one cell, and every piece whose coordinate is
\* not the sentinel is the occupant of the cell at its coordinate: a move
\* that returns True or False keeps this.
C35_MovesKeepCellsAndCoordinates ==
    [][ (/\ CellsAndCoordinatesAgree
         /\ last'.op = "move"
         /\ last'.result \in {"True", "False"})
        => CellsAndCoordinatesAgree' ]_vars

\* ------------------------------------------------------- end of the game
KingsInPlay(n) == {k \in Constructed : kind[k] = "King" /\ ctrl[k] = n /\ coords[k] # NoCoords}

CapturedKings == {k \in Constructed : kind[k] = "King" /\ coords[k] # NoCoords /\ coords'[k] = NoCoords}

\* C36: directly after a successful move that captured a player's only
\* King, the default Lose condition is true for that player, and it is
\* false for every player who still has a King in play.
C36_LoseAfterKingCapture ==
    [][ (/\ last'.op = "move"
         /\ last'.result = "True"
         /\ CapturedKings # {})
        => /\ \A k \in CapturedKings :
                 KingsInPlay(ctrl[k])' = {} => Lose_test_condition(Cur, ctrl[k])'
           /\ \A n \in players :
                 KingsInPlay(n)' # {} => ~Lose_test_condition(Cur, n)' ]_vars

\* C37: after a player's update_threatened_spaces, if none of the player's
\* threatened coordinates holds the opposing player's King, the opposing
\* player's in_check flag is false, even when an earlier update set it.
C37_CheckEndsWithThreat ==
    (Updated /\ ~KingThreatenedBy(last.num))
        => ~in_check[opposing_player_controller(last.num)]

\* ------------------------------------------------------- captured pieces
OutOfPlay(p) == p \in Constructed /\ coords[p] = NoCoords

\* C38: a captured piece (its coordinate is the sentinel) contributes no
\* moves: its list_moves() returns the empty list, its move(t) returns
\* False for every t without raising and without changing the board, and
\* it adds nothing to the threatened spaces of a player that lists it.
C38_CapturedPieceHasNoMoves ==
    [][ /\ (last'.op = "list_moves" /\ OutOfPlay(last'.piece))
            => (last'.result = "list" /\ last'.moves = <<>>)
        /\ (last'.op = "move" /\ OutOfPlay(last'.piece))
            => (last'.result = "False" /\ UNCHANGED <<layout, coords, ctrl, owned>>)
        /\ \A n \in players : \A p \in SeqRange(owned[n]) :
              OutOfPlay(p) => /\ ~update_threatened_spaces(Cur, n).exc
                              /\ PieceThreats(Cur, p) = <<>> ]_vars

\* ------------------------------------------------------------------ pawns
PawnsInPlay == {p \in Constructed : kind[p] = "Pawn" /\ coords[p] # NoCoords}

\* C39: Pawn.list_moves() never returns a coordinate that is off the
\* board; on the last rank in the pawn's forward direction, or one rank
\* before it, the cells beyond the edge are not listed.
C39_PawnMovesOnBoard ==
    \A p \in PawnsInPlay :
        \A i \in 1..Len(list_moves(Cur, p)) : on_board(Cur, list_moves(Cur, p)[i])

\* ------------------------------------------------------------ own pieces
Archetypes == {p \in Constructed : kind[p] \in ChessKinds /\ coords[p] # NoCoords}

OnBoardOf(n) == {q \in Constructed : ctrl[q] = n /\ \E index \in DOMAIN layout : layout[index] = q}

OnBoardAfterOf(n) == {q \in Constructed' : ctrl'[q] = n /\ \E index \in DOMAIN layout' : layout'[index] = q}

ListsAvoidOwnPieces ==
    \A p \in Archetypes : \A i \in 1..Len(list_moves(Cur, p)) :
        LET q == query_space(Cur, list_moves(Cur, p)[i]) IN
        q = NoPiece \/ ctrl[q] # ctrl[p]

SuccessfulArchetypeMove ==
    /\ last'.op = "move"
    /\ last'.result = "True"
    /\ last'.piece \in Archetypes

====
